---- MODULE Spec2Model ----
(***************************************************************************)
(* Model of platform_sdk.tier0_core.ledger: the SHA-256 hash-chained       *)
(* conversation ledger (LedgerEntry, _compute_digest, MockLedgerProvider,  *)
(* ImmudbProvider) and its public API (append_turn, verify_chain).         *)
(*                                                                         *)
(* Python strings are TLA+ strings; a digest is a string, "" for the       *)
(* genesis entry's prev_digest.  SHA-256 is modelled as a collision-free   *)
(* function of the canonical JSON text: sha256_hexdigest wraps the text it *)
(* hashes, so two digests are equal iff the hashed texts are equal.        *)
(* Python indices are 0-based; At(s, i) reads s[i].                        *)
(***************************************************************************)
EXTENDS Integers, Sequences, FiniteSets, TLC

\* ------------------------------------------------------------------ bounds

\* total number of LedgerEntry objects constructed (append_turn calls)
MaxAppends == 3
\* number of direct storage mutations applied to MockLedgerProvider._store
MaxTampers == 2
\* number of asyncio tasks running append_turn concurrently
NTasks == 3

\* ------------------------------------------------------------------ inputs

ConvIds == {"c1", "c2"}
Roles == {"user", "assistant"}
Contents == {"Hi", "Hello!"}
\* the metadata argument of append_turn: <<>> is None (omitted), <<d>> is the
\* dict d, a dict being a set of <<key, value>> pairs
MetadataArgs == {<<>>, <<{<<"model", "mock">>}>>}

\* ------------------------------------------------------------------ state

VARIABLES
    store,      \* MockLedgerProvider._store: conversation_id -> list of entries
    created,    \* number of LedgerEntry objects constructed so far
    ret,        \* the last public API call: its return value, and in before
                \* the _store it was called on
    tasks,      \* asyncio tasks running append_turn
    tamperLog,  \* direct mutations applied to _store (set of [kind, cid, pos])
    kv,         \* the immudb key-value store read and written by ImmudbProvider
    thr,        \* worker threads of asyncio.to_thread running _sync_append
    returned    \* the entries ImmudbProvider.append has returned

vars == <<store, created, ret, tasks, tamperLog, kv, thr, returned>>

\* ------------------------------------------------------------ Python helpers

\* s[i] for a 0-based index i
At(s, i) == s[i + 1]

\* s[-1]
Last(s) == s[Len(s)]

\* d.get(k, default)
dict_get(d, k, default) == IF k \in DOMAIN d THEN d[k] ELSE default

\* d[k] = v
dict_set(d, k, v) == [x \in DOMAIN d \cup {k} |-> IF x = k THEN v ELSE d[x]]

\* json.dumps of a str without characters that need escaping
json_str(s) == "\"" \o s \o "\""

\* --------------------------------------------------------------- LedgerEntry

\* LedgerEntry(conversation_id=, role=, content=, metadata=): the dataclass
\* defaults fill the rest.  id (uuid4) is the n-th fresh identifier and
\* timestamp (time.time) the n-th reading of the clock.
LedgerEntry(n, conversation_id, role, content, metadata) ==
    [id |-> n,
     timestamp |-> n,
     conversation_id |-> conversation_id,
     turn_index |-> 0,
     role |-> role,
     content |-> content,
     metadata |-> metadata,
     prev_digest |-> "",
     digest |-> ""]

is_genesis(entry) == entry.turn_index = 0 /\ entry.prev_digest = ""

\* json.dumps({...}, sort_keys=True, separators=(",", ":")): keys in sorted
\* order, no whitespace
\* a digest that also covers the metadata
canonical_WithMetadata(entry) ==
    "{" \o json_str("content") \o ":" \o json_str(entry.content)
    \o "," \o json_str("conversation_id") \o ":" \o json_str(entry.conversation_id)
    \o "," \o json_str("metadata") \o ":"
    \o (IF entry.metadata = {} THEN "{}" ELSE "{...}")
    \o "," \o json_str("prev_digest") \o ":" \o json_str(entry.prev_digest)
    \o "," \o json_str("role") \o ":" \o json_str(entry.role)
    \o "," \o json_str("turn_index") \o ":" \o ToString(entry.turn_index)
    \o "}"

canonical(entry) ==
    "{" \o json_str("content") \o ":" \o json_str(entry.content)
    \o "," \o json_str("conversation_id") \o ":" \o json_str(entry.conversation_id)
    \o "," \o json_str("prev_digest") \o ":" \o json_str(entry.prev_digest)
    \o "," \o json_str("role") \o ":" \o json_str(entry.role)
    \o "," \o json_str("turn_index") \o ":" \o ToString(entry.turn_index)
    \o "}"

\* hashlib.sha256(b).hexdigest(), collision-free
sha256_hexdigest(text) == "sha256(" \o text \o ")"

compute_digest(entry) == sha256_hexdigest(canonical(entry))

\* ------------------------------------------------------- MockLedgerProvider

\* lines 118-127: the entry as append populates it, given the conversation's
\* list
MockPopulate_KeepSupplied(turns, entry) ==
    IF entry.digest # "" THEN entry
    ELSE LET e1 == IF turns # <<>>
                   THEN [entry EXCEPT !.turn_index = Last(turns).turn_index + 1,
                                      !.prev_digest = Last(turns).digest]
                   ELSE [entry EXCEPT !.turn_index = 0, !.prev_digest = ""]
         IN  [e1 EXCEPT !.digest = compute_digest(e1)]

MockPopulate_NoIncrement(turns, entry) ==
    LET e1 == IF turns # <<>>
              THEN [entry EXCEPT !.turn_index = Last(turns).turn_index,
                                 !.prev_digest = Last(turns).digest]
              ELSE [entry EXCEPT !.turn_index = 0, !.prev_digest = ""]
    IN  [e1 EXCEPT !.digest = compute_digest(e1)]

MockPopulate_WrongLink(turns, entry) ==
    LET e1 == IF turns # <<>>
              THEN [entry EXCEPT !.turn_index = Last(turns).turn_index + 1,
                                 !.prev_digest = Last(turns).prev_digest]
              ELSE [entry EXCEPT !.turn_index = 0, !.prev_digest = ""]
    IN  [e1 EXCEPT !.digest = compute_digest(e1)]

MockPopulate_OneBased(turns, entry) ==
    LET e1 == IF turns # <<>>
              THEN [entry EXCEPT !.turn_index = Last(turns).turn_index + 1,
                                 !.prev_digest = Last(turns).digest]
              ELSE [entry EXCEPT !.turn_index = 1, !.prev_digest = ""]
    IN  [e1 EXCEPT !.digest = compute_digest(e1)]

MockPopulate_DigestFirst(turns, entry) ==
    LET d == compute_digest(entry)
        e1 == IF turns # <<>>
              THEN [entry EXCEPT !.turn_index = Last(turns).turn_index + 1,
                                 !.prev_digest = Last(turns).digest]
              ELSE [entry EXCEPT !.turn_index = 0, !.prev_digest = ""]
    IN  [e1 EXCEPT !.digest = d]

MockPopulate(turns, entry) ==
    LET e1 == IF turns # <<>>
              THEN [entry EXCEPT !.turn_index = Last(turns).turn_index + 1,
                                 !.prev_digest = Last(turns).digest]
              ELSE [entry EXCEPT !.turn_index = 0, !.prev_digest = ""]
    IN  [e1 EXCEPT !.digest = compute_digest(e1)]

\* MockLedgerProvider.append: the new _store and the returned entry
MockLedgerProvider_append_Get(st, entry) ==
    LET cid == entry.conversation_id
        turns == dict_get(st, cid, <<>>)
        e == MockPopulate(turns, entry)
    IN  [store |-> IF cid \in DOMAIN st THEN dict_set(st, cid, Append(turns, e)) ELSE st,
         entry |-> e]

\* append with one list object shared by all conversations
MockLedgerProvider_append_SharedList(st, entry) ==
    LET cid == entry.conversation_id
        shared == IF DOMAIN st = {} THEN <<>> ELSE st[CHOOSE c \in DOMAIN st : TRUE]
        e == MockPopulate(shared, entry)
    IN  [store |-> [c \in DOMAIN st \cup {cid} |-> Append(shared, e)],
         entry |-> e]

MockLedgerProvider_append(st, entry) ==
    LET cid == entry.conversation_id
        st1 == IF cid \in DOMAIN st THEN st ELSE dict_set(st, cid, <<>>)
        turns == st1[cid]
        e == MockPopulate(turns, entry)
    IN  [store |-> dict_set(st1, cid, Append(turns, e)),
         entry |-> e]

\* verify_chain without the i > 0 guard: turns[i - 1] is turns[-1] at i = 0
\* verify_chain that reports a broken link at the entry linked to
RECURSIVE MockVerifyFrom_BlamePrev(_, _)
MockVerifyFrom_BlamePrev(turns, i) ==
    IF i >= Len(turns) THEN <<TRUE, "ok">>
    ELSE LET entry == At(turns, i)
             expected == compute_digest(entry)
         IN  IF entry.digest # expected
             THEN <<FALSE, "turn " \o ToString(i) \o ": digest mismatch">>
             ELSE IF i > 0 /\ entry.prev_digest # At(turns, i - 1).digest
             THEN <<FALSE, "turn " \o ToString(i - 1) \o ": prev_digest chain broken">>
             ELSE MockVerifyFrom_BlamePrev(turns, i + 1)

RECURSIVE MockVerifyFrom_NoGuard(_, _)
MockVerifyFrom_NoGuard(turns, i) ==
    IF i >= Len(turns) THEN <<TRUE, "ok">>
    ELSE LET entry == At(turns, i)
             expected == compute_digest(entry)
             prev == IF i = 0 THEN Last(turns) ELSE At(turns, i - 1)
         IN  IF entry.digest # expected
             THEN <<FALSE, "turn " \o ToString(i) \o ": digest mismatch">>
             ELSE IF entry.prev_digest # prev.digest
             THEN <<FALSE, "turn " \o ToString(i) \o ": prev_digest chain broken">>
             ELSE MockVerifyFrom_NoGuard(turns, i + 1)

MockLedgerProvider_verify_chain_NoGuard(st, conversation_id) ==
    LET turns == dict_get(st, conversation_id, <<>>)
    IN  IF turns = <<>> THEN <<TRUE, "ok">> ELSE MockVerifyFrom_NoGuard(turns, 0)

\* verify_chain that compares the links only and recomputes no digest
RECURSIVE MockVerifyFrom_LinksOnly(_, _)
MockVerifyFrom_LinksOnly(turns, i) ==
    IF i >= Len(turns) THEN <<TRUE, "ok">>
    ELSE LET entry == At(turns, i)
         IN  IF i > 0 /\ entry.prev_digest # At(turns, i - 1).digest
             THEN <<FALSE, "turn " \o ToString(i) \o ": prev_digest chain broken">>
             ELSE MockVerifyFrom_LinksOnly(turns, i + 1)

MockLedgerProvider_verify_chain_LinksOnly(st, conversation_id) ==
    LET turns == dict_get(st, conversation_id, <<>>)
    IN  IF turns = <<>> THEN <<TRUE, "ok">> ELSE MockVerifyFrom_LinksOnly(turns, 0)

\* verify_chain with both checks under the i > 0 guard
RECURSIVE MockVerifyFrom_SkipGenesis(_, _)
MockVerifyFrom_SkipGenesis(turns, i) ==
    IF i >= Len(turns) THEN <<TRUE, "ok">>
    ELSE LET entry == At(turns, i)
             expected == compute_digest(entry)
         IN  IF i > 0 /\ entry.digest # expected
             THEN <<FALSE, "turn " \o ToString(i) \o ": digest mismatch">>
             ELSE IF i > 0 /\ entry.prev_digest # At(turns, i - 1).digest
             THEN <<FALSE, "turn " \o ToString(i) \o ": prev_digest chain broken">>
             ELSE MockVerifyFrom_SkipGenesis(turns, i + 1)

MockLedgerProvider_verify_chain_SkipGenesis(st, conversation_id) ==
    LET turns == dict_get(st, conversation_id, <<>>)
    IN  IF turns = <<>> THEN <<TRUE, "ok">> ELSE MockVerifyFrom_SkipGenesis(turns, 0)

\* verify_chain with the two checks in the other order
RECURSIVE MockVerifyFrom_LinkFirst(_, _)
MockVerifyFrom_LinkFirst(turns, i) ==
    IF i >= Len(turns) THEN <<TRUE, "ok">>
    ELSE LET entry == At(turns, i)
             expected == compute_digest(entry)
         IN  IF i > 0 /\ entry.prev_digest # At(turns, i - 1).digest
             THEN <<FALSE, "turn " \o ToString(i) \o ": prev_digest chain broken">>
             ELSE IF entry.digest # expected
             THEN <<FALSE, "turn " \o ToString(i) \o ": digest mismatch">>
             ELSE MockVerifyFrom_LinkFirst(turns, i + 1)

MockLedgerProvider_verify_chain_LinkFirst(st, conversation_id) ==
    LET turns == dict_get(st, conversation_id, <<>>)
    IN  IF turns = <<>> THEN <<TRUE, "ok">> ELSE MockVerifyFrom_LinkFirst(turns, 0)

\* MockLedgerProvider.verify_chain: the for loop from position i on
RECURSIVE MockVerifyFrom(_, _)
MockVerifyFrom(turns, i) ==
    IF i >= Len(turns) THEN <<TRUE, "ok">>
    ELSE LET entry == At(turns, i)
             expected == compute_digest(entry)
         IN  IF entry.digest # expected
             THEN <<FALSE, "turn " \o ToString(i) \o ": digest mismatch">>
             ELSE IF i > 0 /\ entry.prev_digest # At(turns, i - 1).digest
             THEN <<FALSE, "turn " \o ToString(i) \o ": prev_digest chain broken">>
             ELSE MockVerifyFrom(turns, i + 1)

\* verify_chain that takes a conversation without entries for a broken one
MockLedgerProvider_verify_chain_EmptyInvalid(st, conversation_id) ==
    LET turns == dict_get(st, conversation_id, <<>>)
    IN  IF turns = <<>> THEN <<FALSE, "no entries">> ELSE MockVerifyFrom(turns, 0)

MockLedgerProvider_verify_chain(st, conversation_id) ==
    LET turns == dict_get(st, conversation_id, <<>>)
    IN  IF turns = <<>> THEN <<TRUE, "ok">> ELSE MockVerifyFrom(turns, 0)

\* s[a:b], Python's slice with step 1
py_slice(s, a, b) ==
    LET n == Len(s)
        norm(x) == IF x < 0 THEN (IF x + n < 0 THEN 0 ELSE x + n)
                   ELSE (IF x > n THEN n ELSE x)
        lo == norm(a)
        hi == norm(b)
    IN  IF hi <= lo THEN <<>> ELSE [j \in 1..(hi - lo) |-> s[lo + j]]

\* what self._store.setdefault(conversation_id, []) would leave of _store
MockReadStore_SetDefault(st, conversation_id) ==
    IF conversation_id \in DOMAIN st THEN st ELSE dict_set(st, conversation_id, <<>>)

\* lines 132, 143, 147: _store after self._store.get(conversation_id, []),
\* which inserts nothing
MockReadStore(st, conversation_id) == st

\* get_entry without the lower bound: turns[-1] is the last entry
MockLedgerProvider_get_entry_NoLowerBound(st, conversation_id, turn_index) ==
    LET turns == dict_get(st, conversation_id, <<>>)
    IN  IF turn_index < Len(turns) /\ turns # <<>>
        THEN <<At(turns, IF turn_index < 0 THEN Len(turns) + turn_index ELSE turn_index)>>
        ELSE <<>>

\* MockLedgerProvider.get_entry: <<>> is None, <<e>> the entry e
MockLedgerProvider_get_entry(st, conversation_id, turn_index) ==
    LET turns == dict_get(st, conversation_id, <<>>)
    IN  IF 0 <= turn_index /\ turn_index < Len(turns)
        THEN <<At(turns, turn_index)>>
        ELSE <<>>

\* get_conversation slicing turns[offset + 1: offset + limit]
MockLedgerProvider_get_conversation_SkipFirst(st, conversation_id, limit, offset) ==
    py_slice(dict_get(st, conversation_id, <<>>), offset + 1, offset + limit)

\* get_conversation slicing turns[offset: limit]
MockLedgerProvider_get_conversation_NoOffset(st, conversation_id, limit, offset) ==
    py_slice(dict_get(st, conversation_id, <<>>), offset, limit)

\* MockLedgerProvider.get_conversation
MockLedgerProvider_get_conversation(st, conversation_id, limit, offset) ==
    py_slice(dict_get(st, conversation_id, <<>>), offset, offset + limit)

\* ------------------------------------------------------------- public API

\* the metadata argument dropped
OrEmptyDict_Drop(metadata) == {}

\* metadata or {}
OrEmptyDict(metadata) ==
    IF metadata = <<>> \/ metadata[1] = {} THEN {} ELSE metadata[1]

\* append_turn with the mock provider, the n+1-st LedgerEntry constructed:
\* the new _store and the returned entry
append_turn(st, n, conversation_id, role, content, metadata) ==
    MockLedgerProvider_append(
        st, LedgerEntry(n + 1, conversation_id, role, content, OrEmptyDict(metadata)))

\* verify_chain with the mock provider
verify_chain(st, conversation_id) ==
    MockLedgerProvider_verify_chain(st, conversation_id)

\* get_conversation with the mock provider
get_conversation(st, conversation_id, limit, offset) ==
    MockLedgerProvider_get_conversation(st, conversation_id, limit, offset)

\* ------------------------------------------------- calls of the public API

TaskIds == 1..NTasks
Threads == {"w1", "w2"}

Init ==
    /\ store = <<>>
    /\ created = 0
    /\ ret = [op |-> "none"]
    /\ tasks = [t \in TaskIds |-> [state |-> "new"]]
    /\ tamperLog = {}
    /\ kv = <<>>
    /\ thr = [w \in Threads |-> [pc |-> "idle"]]
    /\ returned = {}

\* await append_turn(c, r, k, m): the coroutine runs to its end in one step,
\* MockLedgerProvider.append awaits nothing
CallAppendTurn(c, r, k, m) ==
    LET res == append_turn(store, created, c, r, k, m)
    IN  /\ created < MaxAppends
        /\ created' = created + 1
        /\ store' = res.store
        /\ ret' = [op |-> "append_turn", value |-> res.entry, before |-> store]
        /\ UNCHANGED <<tasks, tamperLog, kv, thr, returned>>

\* await verify_chain(c)
CallVerifyChain(c) ==
    /\ ret' = [op |-> "verify_chain", cid |-> c, value |-> verify_chain(store, c),
               before |-> store]
    /\ store' = MockReadStore(store, c)
    /\ UNCHANGED <<created, tasks, tamperLog, kv, thr, returned>>

AppendTurn ==
    \E c \in ConvIds, r \in Roles, k \in Contents, m \in MetadataArgs :
        CallAppendTurn(c, r, k, m)

VerifyChain == \E c \in ConvIds \cup {"nonexistent"} : CallVerifyChain(c)

Next == AppendTurn \/ VerifyChain

\* the ledger used through append_turn and verify_chain only
Spec == Init /\ [][Next]_vars

\* --------------------------------------------------- concurrent asyncio tasks

\* asyncio.create_task(append_turn(c, r, k, m)): the coroutine is scheduled
\* and has not run yet
SpawnTask(t, c, r, k, m) ==
    /\ tasks[t].state = "new"
    /\ tasks' = [tasks EXCEPT ![t] =
                    [state |-> "pending", cid |-> c, role |-> r, content |-> k,
                     metadata |-> m]]
    /\ UNCHANGED <<store, created, ret, tamperLog, kv, thr, returned>>

\* the event loop runs task t: append_turn has no suspension point, so the
\* task runs from its first line to its return without another task in
\* between.  raced records that another task on the same conversation was
\* scheduled and had not run.
RunTask(t) ==
    /\ tasks[t].state = "pending"
    /\ LET a == tasks[t]
           res == append_turn(store, created, a.cid, a.role, a.content, a.metadata)
       IN  /\ created' = created + 1
           /\ store' = res.store
           /\ tasks' = [tasks EXCEPT ![t] =
                  [state |-> "done", cid |-> a.cid, result |-> res.entry,
                   raced |-> \E u \in TaskIds \ {t} :
                                 tasks[u].state = "pending" /\ tasks[u].cid = a.cid]]
    /\ UNCHANGED <<ret, tamperLog, kv, thr, returned>>

TaskContents == {"Hi"}
TaskMetadataArgs == {<<>>}

Spawn ==
    \E t \in TaskIds, c \in ConvIds, r \in Roles, k \in TaskContents,
       m \in TaskMetadataArgs : SpawnTask(t, c, r, k, m)

Run == \E t \in TaskIds : RunTask(t)

NextTasks == Spawn \/ Run

\* append_turn called from concurrent asyncio tasks, run in any order
SpecTasks == Init /\ [][NextTasks]_vars

\* ------------------------------------------- the public API with its reads

\* the roles the docstring of append_turn and the MCP schema allow
ValidRoles == {"user", "assistant", "system", "tool"}

\* role arguments of callers, one of them outside ValidRoles
ApiRoles == {"user", "moderator"}

\* await get_provider().get_entry(c, i)
CallGetEntry(c, i) ==
    /\ ret' = [op |-> "get_entry", cid |-> c, turn_index |-> i,
               value |-> MockLedgerProvider_get_entry(store, c, i), before |-> store]
    /\ store' = MockReadStore(store, c)
    /\ UNCHANGED <<created, tasks, tamperLog, kv, thr, returned>>

\* await get_conversation(c, limit=limit, offset=offset)
CallGetConversation(c, limit, offset) ==
    /\ ret' = [op |-> "get_conversation", cid |-> c, limit |-> limit,
               offset |-> offset, value |-> get_conversation(store, c, limit, offset),
               before |-> store]
    /\ store' = MockReadStore(store, c)
    /\ UNCHANGED <<created, tasks, tamperLog, kv, thr, returned>>

ApiAppendTurn ==
    \E c \in ConvIds, r \in ApiRoles, k \in TaskContents, m \in TaskMetadataArgs :
        CallAppendTurn(c, r, k, m)

GetEntry ==
    \E c \in ConvIds \cup {"nonexistent"}, i \in (-1)..MaxAppends : CallGetEntry(c, i)

GetConversation ==
    \E c \in ConvIds \cup {"nonexistent"}, limit \in 0..(MaxAppends + 1),
       offset \in 0..(MaxAppends + 1) : CallGetConversation(c, limit, offset)

NextApi == ApiAppendTurn \/ VerifyChain \/ GetEntry \/ GetConversation

\* the mock ledger used through append_turn and every read
SpecApi == Init /\ [][NextApi]_vars

\* --------------------------------------------------- direct storage mutation

\* provider._store[c][i].content = "TAMPERED"
SetContent(st, c, i, v) == [st EXCEPT ![c][i + 1].content = v]

\* provider._store[c][i].prev_digest = d
SetPrevDigest(st, c, i, d) == [st EXCEPT ![c][i + 1].prev_digest = d]

\* provider._store[c][i].digest = _compute_digest(provider._store[c][i])
RecomputeDigest(st, c, i) ==
    [st EXCEPT ![c][i + 1].digest = compute_digest(At(st[c], i))]

\* the digests found in the store
StoredDigests(st) ==
    UNION {{At(st[c], i).digest : i \in 0..(Len(st[c]) - 1)} : c \in DOMAIN st}

Tampered(kind, c, i) == [kind |-> kind, cid |-> c, pos |-> i]

TamperContent(c, i) ==
    /\ c \in DOMAIN store /\ i \in 0..(Len(store[c]) - 1)
    /\ Cardinality(tamperLog) < MaxTampers
    /\ Tampered("content", c, i) \notin tamperLog
    /\ At(store[c], i).content # "TAMPERED"
    /\ store' = SetContent(store, c, i, "TAMPERED")
    /\ tamperLog' = tamperLog \cup {Tampered("content", c, i)}
    /\ ret' = [op |-> "none"]
    /\ UNCHANGED <<created, tasks, kv, thr, returned>>

TamperPrevDigest(c, i, d) ==
    /\ c \in DOMAIN store /\ i \in 0..(Len(store[c]) - 1)
    /\ Cardinality(tamperLog) < MaxTampers
    /\ Tampered("prev_digest", c, i) \notin tamperLog
    /\ At(store[c], i).prev_digest # d
    /\ store' = SetPrevDigest(store, c, i, d)
    /\ tamperLog' = tamperLog \cup {Tampered("prev_digest", c, i)}
    /\ ret' = [op |-> "none"]
    /\ UNCHANGED <<created, tasks, kv, thr, returned>>

TamperRecompute(c, i) ==
    /\ c \in DOMAIN store /\ i \in 0..(Len(store[c]) - 1)
    /\ Cardinality(tamperLog) < MaxTampers
    /\ Tampered("digest", c, i) \notin tamperLog
    /\ At(store[c], i).digest # compute_digest(At(store[c], i))
    /\ store' = RecomputeDigest(store, c, i)
    /\ tamperLog' = tamperLog \cup {Tampered("digest", c, i)}
    /\ ret' = [op |-> "none"]
    /\ UNCHANGED <<created, tasks, kv, thr, returned>>

TamperRoles == {"user"}

TamperAppendTurn ==
    \E c \in ConvIds, r \in TamperRoles, k \in TaskContents, m \in TaskMetadataArgs :
        CallAppendTurn(c, r, k, m)

Tamper ==
    \E c \in ConvIds, i \in 0..(MaxAppends - 1) :
        \/ TamperContent(c, i)
        \/ \E d \in {"", "deadbeef"} \cup StoredDigests(store) : TamperPrevDigest(c, i, d)
        \/ TamperRecompute(c, i)

NextTamper == TamperAppendTurn \/ VerifyChain \/ Tamper

\* the ledger with write access to the mock store beside the public API
SpecTamper == Init /\ [][NextTamper]_vars

\* ------------------------------------------------------------ ImmudbProvider

\* "0" * n
RECURSIVE Zeros(_)
Zeros(n) == IF n <= 0 THEN "" ELSE "0" \o Zeros(n - 1)

\* f"{turn_index:08d}"
Pad08d(turn_index) ==
    Zeros(8 - Len(ToString(turn_index))) \o ToString(turn_index)

\* ImmudbProvider._entry_key
entry_key(conversation_id, turn_index) ==
    "conv:" \o conversation_id \o ":" \o Pad08d(turn_index)

\* ImmudbProvider._head_key
head_key(conversation_id) == "conv:" \o conversation_id \o ":__head__"

\* _entry_to_dict; the JSON text written to immudb is modelled by the dict it
\* encodes
entry_to_dict(entry) ==
    [id |-> entry.id,
     timestamp |-> entry.timestamp,
     conversation_id |-> entry.conversation_id,
     turn_index |-> entry.turn_index,
     role |-> entry.role,
     content |-> entry.content,
     metadata |-> entry.metadata,
     prev_digest |-> entry.prev_digest,
     digest |-> entry.digest]

\* _sync_append lines 204-215: the head is read with one client.get, which
\* raises when the key is absent; the entry is then populated
ImmudbPopulate(db, entry) ==
    LET hk == head_key(entry.conversation_id)
        e1 == IF hk \in DOMAIN db
              THEN [entry EXCEPT !.turn_index = db[hk].turn_index + 1,
                                 !.prev_digest = db[hk].digest]
              ELSE [entry EXCEPT !.turn_index = 0, !.prev_digest = ""]
    IN  [e1 EXCEPT !.digest = compute_digest(e1)]

\* append_turn with ImmudbProvider: the entry is constructed and
\* asyncio.to_thread hands _sync_append to worker thread w
ImmudbStartAppend(w, c, r, k, m) ==
    /\ thr[w].pc = "idle"
    /\ created < MaxAppends
    /\ created' = created + 1
    /\ thr' = [thr EXCEPT ![w] =
                  [pc |-> "get_head",
                   entry |-> LedgerEntry(created + 1, c, r, k, OrEmptyDict(m))]]
    /\ UNCHANGED <<store, ret, tasks, tamperLog, kv, returned>>

\* lines 205-215: self._client.get(head_key), then the local computation
ImmudbGetHead(w) ==
    /\ thr[w].pc = "get_head"
    /\ thr' = [thr EXCEPT ![w] =
                  [pc |-> "set_entry", entry |-> ImmudbPopulate(kv, thr[w].entry)]]
    /\ UNCHANGED <<store, created, ret, tasks, tamperLog, kv, returned>>

\* line 216: self._client.set(key, entry)
ImmudbSetEntry(w) ==
    /\ thr[w].pc = "set_entry"
    /\ LET e == thr[w].entry
       IN  kv' = dict_set(kv, entry_key(e.conversation_id, e.turn_index),
                          entry_to_dict(e))
    /\ thr' = [thr EXCEPT ![w].pc = "set_head"]
    /\ UNCHANGED <<store, created, ret, tasks, tamperLog, returned>>

\* lines 217-221: self._client.set(head_key, head) and the return
ImmudbSetHead(w) ==
    /\ thr[w].pc = "set_head"
    /\ LET e == thr[w].entry
       IN  /\ kv' = dict_set(kv, head_key(e.conversation_id),
                             [turn_index |-> e.turn_index, digest |-> e.digest])
           /\ returned' = returned \cup {e}
    /\ thr' = [thr EXCEPT ![w] = [pc |-> "idle"]]
    /\ UNCHANGED <<store, created, ret, tasks, tamperLog>>

ImmudbStart ==
    \E w \in Threads, c \in ConvIds, r \in Roles, k \in TaskContents,
       m \in TaskMetadataArgs : ImmudbStartAppend(w, c, r, k, m)

ImmudbStep ==
    \E w \in Threads : ImmudbGetHead(w) \/ ImmudbSetEntry(w) \/ ImmudbSetHead(w)

NextImmudb == ImmudbStart \/ ImmudbStep

\* append_turn with ImmudbProvider, each append on a worker thread of its own
SpecImmudb == Init /\ [][NextImmudb]_vars

\* ------------------------------------------- appends recorded, entries read

\* entry = await append_turn(c, r, k, m): ret keeps the arguments with the
\* returned entry, and returned collects the entries the calls returned
CallAppendTurnRecorded(c, r, k, m) ==
    LET res == append_turn(store, created, c, r, k, m)
    IN  /\ created < MaxAppends
        /\ created' = created + 1
        /\ store' = res.store
        /\ ret' = [op |-> "append_turn",
                   args |-> [conversation_id |-> c, role |-> r, content |-> k,
                             metadata |-> m],
                   value |-> res.entry, before |-> store]
        /\ returned' = returned \cup {res.entry}
        /\ UNCHANGED <<tasks, tamperLog, kv, thr>>

RecordedAppendTurn ==
    \E c \in ConvIds, r \in Roles, k \in TaskContents, m \in MetadataArgs :
        CallAppendTurnRecorded(c, r, k, m)

NextReadBack == RecordedAppendTurn \/ GetEntry

\* the mock ledger used through append_turn and get_entry
SpecReadBack == Init /\ [][NextReadBack]_vars

\* ---------------------------------- get_conversation, default arguments

\* limit: int = 100 at line 493 (and in every provider), scaled to one entry
\* less than the longest conversation the model builds
DefaultLimit == MaxAppends - 1

\* offset: int = 0 at line 494
DefaultOffset == 0

\* await get_conversation(c)
GetConversationDefault ==
    \E c \in ConvIds \cup {"nonexistent"} :
        CallGetConversation(c, DefaultLimit, DefaultOffset)

NextPage == RecordedAppendTurn \/ GetConversationDefault

\* the mock ledger used through append_turn and get_conversation(c)
SpecPage == Init /\ [][NextPage]_vars

\* ------------------------------------- the provider's append called directly

\* the chain fields a caller may have set on the entry it hands to append
SuppliedIndices == {0, 7}

SuppliedDigests == {"", "deadbeef"}

\* await get_provider().append(entry) with an entry the caller built, its
\* turn_index, prev_digest and digest set
CallProviderAppend(c, turn_index, prev_digest, digest) ==
    LET entry == [LedgerEntry(created + 1, c, "user", "Hi", {})
                     EXCEPT !.turn_index = turn_index,
                            !.prev_digest = prev_digest,
                            !.digest = digest]
        res == MockLedgerProvider_append(store, entry)
    IN  /\ created < MaxAppends
        /\ created' = created + 1
        /\ store' = res.store
        /\ ret' = [op |-> "append", arg |-> entry, value |-> res.entry,
                   before |-> store]
        /\ UNCHANGED <<tasks, tamperLog, kv, thr, returned>>

ProviderAppend ==
    \E c \in ConvIds, ti \in SuppliedIndices, pd \in SuppliedDigests,
       dg \in SuppliedDigests : CallProviderAppend(c, ti, pd, dg)

NextProvider == ProviderAppend \/ VerifyChain

\* the mock provider's append called with entries whose chain fields are set
SpecProvider == Init /\ [][NextProvider]_vars

\* ------------------------------------------------- rewriting stored chains

\* a rewrite that recomputes the digests and leaves the links as they were
RECURSIVE RewriteFromPos_NoRelink(_, _, _)
RewriteFromPos_NoRelink(turns, i, v) ==
    IF i >= Len(turns) THEN turns
    ELSE LET e1 == [At(turns, i) EXCEPT !.content = v]
             e2 == [e1 EXCEPT !.digest = compute_digest(e1)]
         IN  RewriteFromPos_NoRelink([turns EXCEPT ![i + 1] = e2], i + 1, v)

\* the entries from position i to the end get content v, each prev_digest is
\* set to the digest its predecessor has by then and each digest recomputed
RECURSIVE RewriteFromPos(_, _, _)
RewriteFromPos(turns, i, v) ==
    IF i >= Len(turns) THEN turns
    ELSE LET e0 == At(turns, i)
             e1 == [e0 EXCEPT !.content = v,
                              !.prev_digest = IF i = 0 THEN e0.prev_digest
                                              ELSE At(turns, i - 1).digest]
             e2 == [e1 EXCEPT !.digest = compute_digest(e1)]
         IN  RewriteFromPos([turns EXCEPT ![i + 1] = e2], i + 1, v)

\* a party with write access rewrites conversation c from position k on
RewriteChain(c, k) ==
    /\ c \in DOMAIN store /\ k \in 0..(Len(store[c]) - 1)
    /\ Cardinality(tamperLog) < MaxTampers
    /\ Tampered("rewrite", c, k) \notin tamperLog
    /\ At(store[c], k).content # "REWRITTEN"
    /\ store' = [store EXCEPT ![c] = RewriteFromPos(store[c], k, "REWRITTEN")]
    /\ tamperLog' = tamperLog \cup {Tampered("rewrite", c, k)}
    /\ ret' = [op |-> "none"]
    /\ UNCHANGED <<created, tasks, kv, thr, returned>>

\* the content of the entry at position i is replaced and the digest of that
\* entry alone recomputed; the log tells whether a later entry existed
AmendContent(c, i) ==
    /\ c \in DOMAIN store /\ i \in 0..(Len(store[c]) - 1)
    /\ Cardinality(tamperLog) < MaxTampers
    /\ At(store[c], i).content # "TAMPERED"
    /\ store' = RecomputeDigest(SetContent(store, c, i, "TAMPERED"), c, i)
    /\ tamperLog' = tamperLog \cup
           {Tampered(IF i + 1 < Len(store[c]) THEN "amend" ELSE "amend_last", c, i)}
    /\ ret' = [op |-> "none"]
    /\ UNCHANGED <<created, tasks, kv, thr, returned>>

Rewrite ==
    \E c \in ConvIds, i \in 0..(MaxAppends - 1) : RewriteChain(c, i) \/ AmendContent(c, i)

NextRewrite == TamperAppendTurn \/ VerifyChain \/ Rewrite

\* the ledger with stored chains rewritten, consistently or at one entry,
\* in the mock store beside the public API
SpecRewrite == Init /\ [][NextRewrite]_vars

\* ------------------------------------- amending fields outside the digest

\* provider._store[c][i].metadata = v
SetMetadata(st, c, i, v) == [st EXCEPT ![c][i + 1].metadata = v]

\* provider._store[c][i].id = v
SetId(st, c, i, v) == [st EXCEPT ![c][i + 1].id = v]

\* provider._store[c][i].timestamp = v
SetTimestamp(st, c, i, v) == [st EXCEPT ![c][i + 1].timestamp = v]

\* the values an amendment writes: a metadata mapping, and an id and a
\* timestamp no append gives
AmendedMetadata == {<<"note", "amended">>}

AmendedStamp == 0

\* one stored entry gets another metadata, id or timestamp
AmendField(kind, c, i) ==
    /\ c \in DOMAIN store /\ i \in 0..(Len(store[c]) - 1)
    /\ Cardinality(tamperLog) < MaxTampers
    /\ Tampered(kind, c, i) \notin tamperLog
    /\ store' = CASE kind = "metadata" -> SetMetadata(store, c, i, AmendedMetadata)
                  [] kind = "id" -> SetId(store, c, i, AmendedStamp)
                  [] kind = "timestamp" -> SetTimestamp(store, c, i, AmendedStamp)
    /\ tamperLog' = tamperLog \cup {Tampered(kind, c, i)}
    /\ ret' = [op |-> "none"]
    /\ UNCHANGED <<created, tasks, kv, thr, returned>>

Amend ==
    \E c \in ConvIds, i \in 0..(MaxAppends - 1),
       kind \in {"metadata", "id", "timestamp"} : AmendField(kind, c, i)

NextAmend == TamperAppendTurn \/ VerifyChain \/ Amend

\* the ledger with the metadata, id and timestamp of stored entries amended
\* in the mock store beside the public API
SpecAmend == Init /\ [][NextAmend]_vars

\* --------------------------------------- ImmudbProvider: storage failures

\* lines 210-214: self._client.get(head_key) raised because the backend
\* could not be reached; the except clause takes it for a missing head
ImmudbPopulateOnError(entry) ==
    LET e1 == [entry EXCEPT !.turn_index = 0, !.prev_digest = ""]
    IN  [e1 EXCEPT !.digest = compute_digest(e1)]

\* lines 205-215 with the backend unreachable at self._client.get(head_key)
ImmudbGetHeadUnreachable(w) ==
    /\ thr[w].pc = "get_head"
    /\ thr' = [thr EXCEPT ![w] =
                  [pc |-> "set_entry", entry |-> ImmudbPopulateOnError(thr[w].entry),
                   headFailed |-> TRUE]]
    /\ UNCHANGED <<store, created, ret, tasks, tamperLog, kv, returned>>

\* line 216 with the backend unreachable: self._client.set raises, no except
\* clause is around it and the append ends with the exception
ImmudbSetEntryFails(w) ==
    /\ thr[w].pc = "set_entry"
    /\ thr' = [thr EXCEPT ![w] = [pc |-> "idle"]]
    /\ UNCHANGED <<store, created, ret, tasks, tamperLog, kv, returned>>

\* lines 217-220 with the backend unreachable: the entry record is written,
\* the set of the head record raises and the append ends with the exception
ImmudbSetHeadFails(w) ==
    /\ thr[w].pc = "set_head"
    /\ thr' = [thr EXCEPT ![w] = [pc |-> "idle"]]
    /\ UNCHANGED <<store, created, ret, tasks, tamperLog, kv, returned>>

\* appends issued one after the other, all on worker thread w1
ImmudbStart1 ==
    \E c \in ConvIds, r \in TamperRoles, k \in TaskContents, m \in TaskMetadataArgs :
        ImmudbStartAppend("w1", c, r, k, m)

ImmudbStep1 ==
    ImmudbGetHead("w1") \/ ImmudbSetEntry("w1") \/ ImmudbSetHead("w1")

ImmudbWriteFails == ImmudbSetEntryFails("w1") \/ ImmudbSetHeadFails("w1")

NextImmudbWriteFail == ImmudbStart1 \/ ImmudbStep1 \/ ImmudbWriteFails

\* sequential ImmudbProvider appends whose writes may fail
SpecImmudbWriteFail == Init /\ [][NextImmudbWriteFail]_vars

ImmudbHeadReadFails == ImmudbGetHeadUnreachable("w1")

NextImmudbHeadFail == ImmudbStart1 \/ ImmudbStep1 \/ ImmudbHeadReadFails

\* sequential ImmudbProvider appends whose head lookup may fail
SpecImmudbHeadFail == Init /\ [][NextImmudbHeadFail]_vars

\* ------------------------------------------------- ImmudbProvider: reads

\* _entry_from_dict; the defaults of id and timestamp (a fresh uuid4, the
\* time of the call) are written 0
entry_from_dict(d) ==
    [id |-> dict_get(d, "id", 0),
     timestamp |-> dict_get(d, "timestamp", 0),
     conversation_id |-> dict_get(d, "conversation_id", ""),
     turn_index |-> dict_get(d, "turn_index", 0),
     role |-> dict_get(d, "role", ""),
     content |-> dict_get(d, "content", ""),
     metadata |-> dict_get(d, "metadata", {}),
     prev_digest |-> dict_get(d, "prev_digest", ""),
     digest |-> dict_get(d, "digest", "")]

\* ImmudbProvider._sync_get_entry, up telling whether the backend can be
\* reached: <<>> is None, <<e>> the entry e.  client.get raises for an
\* absent key and for an unreachable backend alike, and both are caught.
ImmudbProvider_sync_get_entry(db, conversation_id, turn_index, up) ==
    LET key == entry_key(conversation_id, turn_index)
    IN  IF up /\ key \in DOMAIN db THEN <<entry_from_dict(db[key])>> ELSE <<>>

\* ImmudbProvider.verify_chain lines 253-261 on the fetched entries
RECURSIVE ImmudbVerifyFrom(_, _)
ImmudbVerifyFrom(entries, i) ==
    IF i >= Len(entries) THEN <<TRUE, "ok">>
    ELSE LET entry == At(entries, i)
             expected == compute_digest(entry)
         IN  IF entry.digest # expected
             THEN <<FALSE, "turn " \o ToString(i) \o ": digest mismatch">>
             ELSE IF i > 0 /\ entry.prev_digest # At(entries, i - 1).digest
             THEN <<FALSE, "turn " \o ToString(i) \o ": chain broken at prev_digest">>
             ELSE ImmudbVerifyFrom(entries, i + 1)

\* the page verify_chain fetches: limit=10_000 at lines 252 and 369, scaled
\* to one entry less than the longest conversation the model builds
VerifyLimit == MaxAppends - 1

\* what a finished read returns: the list for get_conversation, the verdict
\* on it for verify_chain
ImmudbReadValue(op, results) ==
    IF op = "verify_chain"
    THEN (IF results = <<>> THEN <<TRUE, "ok">> ELSE ImmudbVerifyFrom(results, 0))
    ELSE results

\* get_conversation lines 243-244 (verify_chain calls it at line 252): the
\* loop is about to start.  ret holds the coroutine's locals, and failed
\* whether a get found the backend unreachable.  The caller awaits each call
\* before it makes the next one.
ImmudbReadStart(op, c, limit, offset) ==
    /\ ret.op = "none"
    /\ \A w \in Threads : thr[w].pc = "idle"
    /\ ret' = [op |-> op, cid |-> c, phase |-> "running", i |-> offset,
               stop |-> offset + limit, results |-> <<>>, failed |-> FALSE,
               outcome |-> "none"]
    /\ UNCHANGED <<store, created, tasks, tamperLog, kv, thr, returned>>

\* lines 244-249: one turn of the loop, a get_entry on a worker thread; the
\* read returns when the range is used up or get_entry gave None
ImmudbReadStep(up) ==
    /\ ret.op \in {"verify_chain", "get_conversation"} /\ ret.phase = "running"
    /\ LET got == IF ret.i < ret.stop
                  THEN ImmudbProvider_sync_get_entry(kv, ret.cid, ret.i, up)
                  ELSE <<>>
           results == ret.results \o got
           failed == ret.failed \/ (ret.i < ret.stop /\ ~up)
       IN  IF got # <<>> /\ ret.i + 1 < ret.stop
           THEN ret' = [ret EXCEPT !.i = ret.i + 1, !.results = results,
                                   !.failed = failed]
           ELSE ret' = [ret EXCEPT !.phase = "done", !.results = results,
                                   !.failed = failed, !.outcome = "return"]
    /\ UNCHANGED <<store, created, tasks, tamperLog, kv, thr, returned>>

\* await provider.get_entry(c, i), one get on a worker thread
ImmudbCallGetEntry(c, i, up) ==
    /\ ret.op = "none"
    /\ \A w \in Threads : thr[w].pc = "idle"
    /\ ret' = [op |-> "get_entry", cid |-> c, phase |-> "done", i |-> i,
               stop |-> i + 1,
               results |-> ImmudbProvider_sync_get_entry(kv, c, i, up),
               failed |-> ~up, outcome |-> "return"]
    /\ UNCHANGED <<store, created, tasks, tamperLog, kv, thr, returned>>

\* the caller has the result of the read and goes on
ImmudbReadReturn ==
    /\ ret.op # "none" /\ ret.phase = "done"
    /\ ret' = [op |-> "none"]
    /\ UNCHANGED <<store, created, tasks, tamperLog, kv, thr, returned>>

\* the value a finished read returned
ImmudbReturned(r) == ImmudbReadValue(r.op, r.results)

\* a write to the database beside the provider: the content of a stored
\* entry record is replaced
ImmudbTamperContent(c, i) ==
    /\ entry_key(c, i) \in DOMAIN kv
    /\ Cardinality(tamperLog) < MaxTampers
    /\ kv[entry_key(c, i)].content # "TAMPERED"
    /\ kv' = [kv EXCEPT ![entry_key(c, i)].content = "TAMPERED"]
    /\ tamperLog' = tamperLog \cup {Tampered("content", c, i)}
    /\ UNCHANGED <<store, created, ret, tasks, thr, returned>>

ImmudbVerifyChain == \E c \in ConvIds : ImmudbReadStart("verify_chain", c, VerifyLimit, 0)

ImmudbGetConversation ==
    \E c \in ConvIds : ImmudbReadStart("get_conversation", c, MaxAppends, 0)

ImmudbRead == \E up \in BOOLEAN : ImmudbReadStep(up)

ImmudbGetEntry ==
    \E c \in ConvIds, i \in 0..(MaxAppends - 1), up \in BOOLEAN :
        ImmudbCallGetEntry(c, i, up)

ImmudbTamper == \E c \in ConvIds, i \in 0..(MaxAppends - 1) : ImmudbTamperContent(c, i)

NextImmudbRead ==
    \/ ret.op = "none" /\ (ImmudbStart1 \/ ImmudbStep1 \/ ImmudbTamper)
    \/ ImmudbVerifyChain \/ ImmudbGetConversation \/ ImmudbRead \/ ImmudbGetEntry
    \/ ImmudbReadReturn

\* sequential ImmudbProvider appends, the reads of the provider with a
\* backend that may be unreachable, and direct writes to the database
SpecImmudbRead == Init /\ [][NextImmudbRead]_vars

\* ------------------------------------------------------------ QLDBProvider

\* the rows of a QLDB table; kv holds the committed tables by name
QldbTable(db, name) == dict_get(db, name, <<>>)

\* lines 286-290: SELECT turn_index, digest FROM conversation_head
\* WHERE conversation_id = ?, as list(cursor)
QldbSelectHead(db, conversation_id) ==
    SelectSeq(QldbTable(db, "conversation_head"),
              LAMBDA row : row.conversation_id = conversation_id)

\* lines 291-298: the entry populated from the rows read
QldbPopulate(rows, entry) ==
    LET e1 == IF rows # <<>>
              THEN [entry EXCEPT !.turn_index = rows[1].turn_index + 1,
                                 !.prev_digest = rows[1].digest]
              ELSE [entry EXCEPT !.turn_index = 0, !.prev_digest = ""]
    IN  [e1 EXCEPT !.digest = compute_digest(e1)]

\* json.dumps(d["metadata"]) for a dict of at most one item
json_dumps_dict(d) ==
    IF d = {} THEN "{}"
    ELSE LET item == CHOOSE p \in d : TRUE
         IN  "{" \o json_str(item[1]) \o ": " \o json_str(item[2]) \o "}"

\* lines 299-307: the row INSERTed INTO conversation_turns
QldbTurnRow(entry) ==
    [entry_to_dict(entry) EXCEPT !.metadata = json_dumps_dict(entry.metadata)]

\* the head row of lines 315-319
QldbHeadRow(entry) ==
    [conversation_id |-> entry.conversation_id, turn_index |-> entry.turn_index,
     digest |-> entry.digest]

\* lines 308-319 with a head row INSERTed whether or not one was read
QldbHeadStatement_AlwaysInsert(heads, rows, entry) ==
    Append(heads, QldbHeadRow(entry))

\* lines 308-319: UPDATE conversation_head ... WHERE conversation_id = ? when
\* the SELECT gave rows, INSERT INTO conversation_head otherwise
QldbHeadStatement(heads, rows, entry) ==
    IF rows # <<>>
    THEN [j \in DOMAIN heads |->
             IF heads[j].conversation_id = entry.conversation_id
             THEN [heads[j] EXCEPT !.turn_index = entry.turn_index,
                                   !.digest = entry.digest]
             ELSE heads[j]]
    ELSE Append(heads, QldbHeadRow(entry))

\* the tables after the statements of _txn are committed
QldbCommitted(db, rows, entry) ==
    dict_set(
        dict_set(db, "conversation_turns",
                 Append(QldbTable(db, "conversation_turns"), QldbTurnRow(entry))),
        "conversation_head",
        QldbHeadStatement(QldbTable(db, "conversation_head"), rows, entry))

\* line 321, the driver's optimistic concurrency control: the transaction
\* conflicts when what it read is no longer what is committed
QldbConflict(db, rows, entry) ==
    QldbSelectHead(db, entry.conversation_id) # rows

\* append_turn with QLDBProvider: the entry is constructed and
\* asyncio.to_thread hands _sync_append to worker thread w
QldbStartAppend(w, c, r, k, m) ==
    /\ thr[w].pc = "idle"
    /\ created < MaxAppends
    /\ created' = created + 1
    /\ thr' = [thr EXCEPT ![w] =
                  [pc |-> "txn", reruns |-> 0,
                   entry |-> LedgerEntry(created + 1, c, r, k, OrEmptyDict(m))]]
    /\ UNCHANGED <<store, ret, tasks, tamperLog, kv, returned>>

\* lines 285-319: execute_lambda runs _txn, which reads the head rows and
\* populates the entry; its statements take effect at commit
QldbRunTxn(w) ==
    /\ thr[w].pc = "txn"
    /\ LET rows == QldbSelectHead(kv, thr[w].entry.conversation_id)
       IN  thr' = [thr EXCEPT ![w] =
                      [pc |-> "commit", reruns |-> thr[w].reruns, rows |-> rows,
                       entry |-> QldbPopulate(rows, thr[w].entry)]]
    /\ UNCHANGED <<store, created, ret, tasks, tamperLog, kv, returned>>

\* lines 321-322: the driver commits the transaction and _sync_append returns
\* the entry, or finds a conflict and runs _txn again
QldbCommit(w) ==
    /\ thr[w].pc = "commit"
    /\ IF QldbConflict(kv, thr[w].rows, thr[w].entry)
       THEN /\ thr' = [thr EXCEPT ![w] =
                          [pc |-> "txn", reruns |-> thr[w].reruns + 1,
                           entry |-> thr[w].entry]]
            /\ UNCHANGED <<kv, ret, returned>>
       ELSE /\ kv' = QldbCommitted(kv, thr[w].rows, thr[w].entry)
            /\ ret' = [op |-> "append", value |-> thr[w].entry,
                       reruns |-> thr[w].reruns]
            /\ returned' = returned \cup {thr[w].entry}
            /\ thr' = [thr EXCEPT ![w] = [pc |-> "idle"]]
    /\ UNCHANGED <<store, created, tasks, tamperLog>>

QldbStart ==
    \E w \in Threads, c \in ConvIds, r \in Roles, k \in TaskContents,
       m \in TaskMetadataArgs : QldbStartAppend(w, c, r, k, m)

QldbStep == \E w \in Threads : QldbRunTxn(w) \/ QldbCommit(w)

NextQldb == QldbStart \/ QldbStep

\* append_turn with QLDBProvider, each append on a worker thread of its own,
\* the driver committing serializably and re-running after a conflict
SpecQldb == Init /\ [][NextQldb]_vars

\* ------------------------------------------------------------------ claims

\* the entries of conversation c in the mock store
Turns(c) == dict_get(store, c, <<>>)

\* 0-based positions of a list
Positions(s) == 0..(Len(s) - 1)

\* the entry the next append to conversation c would store and return
NextEntryOn(st, c) ==
    MockLedgerProvider_append(st, LedgerEntry(0, c, "user", "Hi", {})).entry

C4_DigestOfStoredFields ==
    \A c \in DOMAIN store :
        \A i \in Positions(store[c]) :
            LET e == At(store[c], i)
            IN  e.digest = sha256_hexdigest(
                    "{\"content\":\"" \o e.content
                    \o "\",\"conversation_id\":\"" \o e.conversation_id
                    \o "\",\"prev_digest\":\"" \o e.prev_digest
                    \o "\",\"role\":\"" \o e.role
                    \o "\",\"turn_index\":" \o ToString(e.turn_index) \o "}")

C4_Witness ==
    \E c \in DOMAIN store :
        /\ Len(store[c]) = 3
        /\ At(store[c], 0).role = "user" /\ At(store[c], 1).role = "assistant"
        /\ At(store[c], 1).content # At(store[c], 2).content

\* C5: with the store changed through append_turn only, verify_chain returns
\* (True, "ok") for every conversation id.
C5_VerifyOk ==
    ret.op = "verify_chain" => ret.value = <<TRUE, "ok">>

C5_Witness ==
    /\ ret.op = "verify_chain"
    /\ Len(Turns(ret.cid)) = 3
    /\ ret.value = <<TRUE, "ok">>

\* C6: N append_turn calls run as concurrent asyncio tasks on one
\* conversation store N entries, and the turn indices the tasks got and the
\* stored ones are exactly 0..N-1, whatever the order the tasks run in.
DoneTasks(c) == {t \in TaskIds : tasks[t].state = "done" /\ tasks[t].cid = c}

C6_ConcurrentTasksIndices ==
    \A c \in ConvIds :
        LET n == Cardinality(DoneTasks(c))
        IN  /\ Len(Turns(c)) = n
            /\ {tasks[t].result.turn_index : t \in DoneTasks(c)} = 0..(n - 1)
            /\ {At(Turns(c), i).turn_index : i \in Positions(Turns(c))} = 0..(n - 1)
            /\ \A t \in DoneTasks(c) :
                   At(Turns(c), tasks[t].result.turn_index).id = tasks[t].result.id

\* three tasks on one conversation, scheduled together and run out of order
C6_Witness ==
    \E c \in ConvIds :
        /\ DoneTasks(c) = {1, 2, 3}
        /\ tasks[1].raced /\ tasks[3].raced
        /\ tasks[3].result.turn_index < tasks[1].result.turn_index

\* C7: two concurrent ImmudbProvider appends to one conversation never read
\* the same head: the appends get distinct consecutive turn indices and no
\* returned entry is overwritten or lost.
ReturnedOf(c) == {e \in returned : e.conversation_id = c}

C7_ImmudbAppendsSerialized ==
    /\ \A w1, w2 \in Threads :
           ( /\ w1 # w2
             /\ thr[w1].pc \in {"set_entry", "set_head"}
             /\ thr[w2].pc \in {"set_entry", "set_head"}
             /\ thr[w1].entry.conversation_id = thr[w2].entry.conversation_id )
           => thr[w1].entry.turn_index # thr[w2].entry.turn_index
    /\ \A c \in ConvIds :
           /\ \A e1, e2 \in ReturnedOf(c) :
                  e1.id # e2.id => e1.turn_index # e2.turn_index
           /\ {e.turn_index : e \in ReturnedOf(c)}
                  = 0..(Cardinality(ReturnedOf(c)) - 1)
           /\ \A e \in ReturnedOf(c) :
                  /\ entry_key(c, e.turn_index) \in DOMAIN kv
                  /\ kv[entry_key(c, e.turn_index)] = entry_to_dict(e)

\* C8: changing the content of the stored entry at position i, the digest
\* left as it was, makes verify_chain return
\* (False, "turn i: digest mismatch").
C8_ContentTamperDetectedAtPosition ==
    \A c \in DOMAIN store :
        \A i \in Positions(store[c]) :
            ( /\ tamperLog = {Tampered("content", c, i)}
              /\ ret.op = "verify_chain" /\ ret.cid = c )
            => ret.value = <<FALSE, "turn " \o ToString(i) \o ": digest mismatch">>

\* the tampered entry is in the middle of a chain of three
C8_Witness ==
    \E c \in DOMAIN store :
        /\ Len(store[c]) = 3
        /\ tamperLog = {Tampered("content", c, 1)}
        /\ ret.op = "verify_chain" /\ ret.cid = c
        /\ ret.value = <<FALSE, "turn 1: digest mismatch">>

\* C9: setting the prev_digest of the stored entry at position i (i = 0
\* included) to another value, no digest updated, makes verify_chain return
\* False with turn index i in its reason.
C9_LinkTamperDetectedAtPosition ==
    \A c \in DOMAIN store :
        \A i \in Positions(store[c]) :
            ( /\ tamperLog = {Tampered("prev_digest", c, i)}
              /\ ret.op = "verify_chain" /\ ret.cid = c )
            => /\ ret.value[1] = FALSE
               /\ ret.value[2] \in
                      {"turn " \o ToString(i) \o ": digest mismatch",
                       "turn " \o ToString(i) \o ": prev_digest chain broken"}

\* the genesis entry of a chain of two is given a prev_digest
C9_Witness ==
    \E c \in DOMAIN store :
        /\ Len(store[c]) >= 2
        /\ tamperLog = {Tampered("prev_digest", c, 0)}
        /\ At(store[c], 0).prev_digest = "deadbeef"
        /\ ret.op = "verify_chain" /\ ret.cid = c
        /\ ret.value[1] = FALSE

\* C10: when stored entries fail verification, verify_chain reports the
\* smallest failing position only, and the digest mismatch where both checks
\* fail at that position.
DigestBad(turns, i) == At(turns, i).digest # compute_digest(At(turns, i))

LinkBad(turns, i) ==
    i > 0 /\ At(turns, i).prev_digest # At(turns, i - 1).digest

BadPositions(turns) ==
    {i \in Positions(turns) : DigestBad(turns, i) \/ LinkBad(turns, i)}

FirstBad(turns) ==
    CHOOSE i \in BadPositions(turns) : \A j \in BadPositions(turns) : i <= j

BreaksChainInvariants(turns) ==
    \E i \in Positions(turns) :
        \/ At(turns, i).turn_index # i
        \/ i = 0 /\ At(turns, i).prev_digest # ""

C11_VerifyChecksGenesisAndPosition ==
    ( /\ ret.op = "verify_chain"
      /\ BreaksChainInvariants(Turns(ret.cid)) )
    => ret.value[1] = FALSE

\* C13: append_turn with a role outside user, assistant, system, tool fails
\* and stores nothing: no entry with such a role is returned or stored.
C13_InvalidRoleRejected ==
    /\ ret.op = "append_turn" => ret.value.role \in ValidRoles
    /\ \A c \in DOMAIN store :
           \A i \in Positions(store[c]) : At(store[c], i).role \in ValidRoles

\* C18: an append to conversation A leaves the entries of every other
\* conversation B as they were, the next append to B gets the turn_index and
\* prev_digest it would have got without it, and no entry's prev_digest is
\* the digest of an entry of another conversation.
CrossLinked(st) ==
    \E a \in DOMAIN st, b \in DOMAIN st :
        /\ a # b
        /\ \E i \in Positions(st[a]), j \in Positions(st[b]) :
               At(st[a], i).prev_digest = At(st[b], j).digest

C18_ConversationsIndependent ==
    /\ ~CrossLinked(store)
    /\ ret.op = "append_turn"
       => \A b \in (ConvIds \cup DOMAIN store) \ {ret.value.conversation_id} :
              /\ Turns(b) = dict_get(ret.before, b, <<>>)
              /\ NextEntryOn(store, b) = NextEntryOn(ret.before, b)

\* an append to one conversation while the other holds two entries
C18_Witness ==
    /\ ret.op = "append_turn"
    /\ \E b \in DOMAIN store \ {ret.value.conversation_id} :
           /\ Len(store[b]) = 2
           /\ At(store[b], 0).id < ret.value.id
           /\ NextEntryOn(store, b).turn_index = 2

\* C19: verify_chain, get_entry and get_conversation leave the stored
\* entries of all conversations as they were, and the turn_index and
\* prev_digest the next append gets are those it would have got without the
\* read.
ReadOps == {"verify_chain", "get_entry", "get_conversation"}

C20_GetConversationPage ==
    ret.op = "get_conversation"
    => LET turns == Turns(ret.cid)
           n == Len(turns)
           stop == IF ret.offset + ret.limit < n THEN ret.offset + ret.limit ELSE n
           k == IF stop > ret.offset THEN stop - ret.offset ELSE 0
       IN  /\ Len(ret.value) = k
           /\ k <= ret.limit
           /\ \A j \in 1..k :
                  /\ ret.value[j].turn_index = ret.offset + j - 1
                  /\ ret.value[j] = At(turns, ret.offset + j - 1)

\* a page from the middle of a conversation of three: limit 1, offset 1
C20_Witness ==
    /\ ret.op = "get_conversation"
    /\ Len(Turns(ret.cid)) = 3
    /\ ret.limit = 1 /\ ret.offset = 1
    /\ Len(ret.value) = 1 /\ ret.value[1].turn_index = 1

\* the fields of a stored entry record that an append must leave as they are
ChainFields(d) ==
    <<d.turn_index, d.role, d.content, d.prev_digest, d.digest>>

\* the positions an entry record can be stored at
KvPositions == 0..(MaxAppends - 1)

\* C12: in ImmudbProvider, whenever verify_chain has read a conversation
\* without a storage failure and some stored entry of it, at any position, has
\* a digest that is not the digest of its fields or a prev_digest that is not
\* the digest of the entry before it, verify_chain returns false.
C12_VerifyExaminesEveryEntry ==
    (/\ ret.op = "verify_chain"
     /\ "phase" \in DOMAIN ret
     /\ ret.phase = "done"
     /\ ~ret.failed
     /\ \E i \in KvPositions :
            /\ entry_key(ret.cid, i) \in DOMAIN kv
            /\ LET d == kv[entry_key(ret.cid, i)]
               IN  \/ d.digest # compute_digest(entry_from_dict(d))
                   \/ /\ i > 0
                      /\ entry_key(ret.cid, i - 1) \in DOMAIN kv
                      /\ d.prev_digest # kv[entry_key(ret.cid, i - 1)].digest)
    => ImmudbReturned(ret)[1] = FALSE

\* C14: no step of an ImmudbProvider append removes a stored entry record or
\* changes its turn_index, role, content, prev_digest or digest.
C14_AppendKeepsStoredEntries ==
    [][\A c \in ConvIds, i \in KvPositions :
          entry_key(c, i) \in DOMAIN kv
          => /\ entry_key(c, i) \in DOMAIN kv'
             /\ ChainFields(kv'[entry_key(c, i)]) = ChainFields(kv[entry_key(c, i)])]_vars

\* C15: in ImmudbProvider, once no append is under way, every entry record
\* that can be read is accounted for by the head record of its conversation:
\* the head exists and its turn_index is at least the entry's position.
C15_FailedAppendInvisible ==
    (\A w \in Threads : thr[w].pc = "idle")
    => \A c \in ConvIds, i \in KvPositions :
          entry_key(c, i) \in DOMAIN kv
          => /\ head_key(c) \in DOMAIN kv
             /\ kv[head_key(c)].turn_index >= i

\* C16: in ImmudbProvider, an append whose head lookup failed for a
\* conversation that has a head record never writes its entry at turn_index 0
\* with prev_digest "".
C16_HeadFailureWritesNothing ==
    \A w \in Threads :
        ~ (/\ thr[w].pc = "set_head"
           /\ "headFailed" \in DOMAIN thr[w]
           /\ head_key(thr[w].entry.conversation_id) \in DOMAIN kv
           /\ thr[w].entry.turn_index = 0
           /\ thr[w].entry.prev_digest = ""
           /\ kv[entry_key(thr[w].entry.conversation_id, 0)] = entry_to_dict(thr[w].entry))

\* C17: in ImmudbProvider, a get_entry, get_conversation or verify_chain
\* during which a get found the backend unreachable ends by raising, not by
\* returning a result.
C17_ReadFailurePropagated ==
    (/\ ret.op \in {"get_entry", "get_conversation", "verify_chain"}
     /\ "phase" \in DOMAIN ret
     /\ ret.phase = "done"
     /\ ret.failed)
    => ret.outcome = "raise"

\* C21: verify_chain on a conversation id that has no entries returns
\* (True, "ok"), whatever the store holds for other conversations.
C21_VerifyEmptyOk ==
    (ret.op = "verify_chain" /\ Turns(ret.cid) = <<>>) => ret.value = <<TRUE, "ok">>

\* an id without entries verified while another conversation is broken
C21_Witness ==
    /\ ret.op = "verify_chain"
    /\ Turns(ret.cid) = <<>>
    /\ ret.value = <<TRUE, "ok">>
    /\ \E c \in DOMAIN store : BadPositions(store[c]) # {}

TampersOf(c) == {t \in tamperLog : t.cid = c}

C24_AmendedEntryBreaksNextLink ==
    \A i \in 0..(MaxAppends - 1) :
        (/\ ret.op = "verify_chain"
         /\ TampersOf(ret.cid) = {Tampered("amend", ret.cid, i)})
        => ret.value = <<FALSE, "turn " \o ToString(i + 1) \o ": prev_digest chain broken">>

\* the first of three entries amended
C24_Witness ==
    /\ ret.op = "verify_chain"
    /\ TampersOf(ret.cid) = {Tampered("amend", ret.cid, 0)}
    /\ Len(Turns(ret.cid)) = 3
    /\ ret.value = <<FALSE, "turn 1: prev_digest chain broken">>

\* C25: whatever turn_index, prev_digest and digest the entry handed to the
\* provider's append carries, the entry returned and stored last has the
\* length of the conversation before the call as turn_index, the digest of
\* the entry stored before it ("" for the first) as prev_digest, and the
\* digest of its own fields as digest.
C25_AppendIgnoresSuppliedChainFields ==
    ret.op = "append"
    => LET e == ret.value
           old == dict_get(ret.before, e.conversation_id, <<>>)
       IN  /\ e.turn_index = Len(old)
           /\ e.prev_digest = (IF old = <<>> THEN "" ELSE Last(old).digest)
           /\ e.digest = compute_digest(e)
           /\ Turns(e.conversation_id) = old \o <<e>>

\* an entry handed over with every chain field set, onto a stored entry
C25_Witness ==
    /\ ret.op = "append"
    /\ ret.arg.turn_index = 7
    /\ ret.arg.prev_digest = "deadbeef"
    /\ ret.arg.digest = "deadbeef"
    /\ Len(Turns(ret.arg.conversation_id)) = 2
    /\ ret.value.turn_index = 1

\* C26: get_entry(c, i) returns, for every entry an append_turn call returned
\* with conversation_id c and turn_index i, an entry with the same role,
\* content, prev_digest and digest, whatever was appended since; it returns
\* None exactly when i is outside 0..n-1, n the length of the conversation.
C26_ReadYourWrites ==
    ret.op = "get_entry"
    => LET n == Len(dict_get(ret.before, ret.cid, <<>>))
       IN  /\ ret.value = <<>> <=> ret.turn_index \notin 0..(n - 1)
           /\ \A e \in returned :
                  (e.conversation_id = ret.cid /\ e.turn_index = ret.turn_index)
                  => /\ ret.value # <<>>
                     /\ ret.value[1].role = e.role
                     /\ ret.value[1].content = e.content
                     /\ ret.value[1].prev_digest = e.prev_digest
                     /\ ret.value[1].digest = e.digest

\* the first entry of a conversation read back after later appends to it and
\* to another conversation
C26_Witness ==
    /\ ret.op = "get_entry"
    /\ ret.turn_index = 0
    /\ Len(Turns(ret.cid)) = 2
    /\ \E c \in DOMAIN store : c # ret.cid /\ Len(store[c]) = 1
    /\ \E e \in returned : ret.value = <<e>>

\* C27: append_turn returns an entry whose conversation_id, role and content
\* are the arguments, whose metadata is the mapping given (the empty mapping
\* when omitted) and whose digest is not empty, and that entry is the one
\* stored last in its conversation; id and timestamp are those the entry was
\* constructed with.
C27_AppendTurnKeepsArguments ==
    (ret.op = "append_turn" /\ "args" \in DOMAIN ret)
    => LET e == ret.value
           a == ret.args
       IN  /\ e.conversation_id = a.conversation_id
           /\ e.role = a.role
           /\ e.content = a.content
           /\ e.metadata = (IF a.metadata = <<>> THEN {} ELSE a.metadata[1])
           /\ e.digest # ""
           /\ e.id = created /\ e.timestamp = created
           /\ Last(Turns(a.conversation_id)) = e

\* a call with a metadata mapping after a call without one
C27_Witness ==
    /\ ret.op = "append_turn" /\ "args" \in DOMAIN ret
    /\ ret.args.metadata = <<{<<"model", "mock">>}>>
    /\ ret.value.metadata = {<<"model", "mock">>}
    /\ ret.value.turn_index = 1
    /\ At(Turns(ret.args.conversation_id), 0).metadata = {}

\* the smaller of two numbers
Min(a, b) == IF a <= b THEN a ELSE b

StoredPositions(c) == {i \in KvPositions : entry_key(c, i) \in DOMAIN kv}

\* C29: in ImmudbProvider, whenever no append is under way, every
\* conversation with a stored entry has a head record, and that record has
\* the turn_index and the digest of the stored entry with the highest
\* turn_index.
C29_HeadIsLastStoredEntry ==
    (\A w \in Threads : thr[w].pc = "idle")
    => \A c \in ConvIds :
          StoredPositions(c) # {}
          => /\ head_key(c) \in DOMAIN kv
             /\ LET m == CHOOSE i \in StoredPositions(c) :
                             \A j \in StoredPositions(c) : j <= i
                IN  /\ kv[head_key(c)].turn_index = m
                    /\ kv[head_key(c)].digest = kv[entry_key(c, m)].digest

\* the committed turn rows of conversation c, in the order of their commits
QldbTurnsOf(c) ==
    SelectSeq(QldbTable(kv, "conversation_turns"), LAMBDA row : row.conversation_id = c)

\* C30: with QLDBProvider, the driver committing each transaction serializably
\* and re-running it after a conflict, the turn rows committed for a
\* conversation have the turn indices 0, 1, ... in the order of their
\* commits, each has the digest of its own fields and the digest of the row
\* committed just before it as prev_digest ("" for the first), and the
\* conversation has exactly one head row, which carries the index and digest
\* of the row committed last.
C30_QldbAppendsSerialized ==
    \A c \in ConvIds :
        LET rows == QldbTurnsOf(c)
            heads == QldbSelectHead(kv, c)
        IN  /\ \A j \in 1..Len(rows) :
                   /\ rows[j].turn_index = j - 1
                   /\ rows[j].prev_digest = (IF j = 1 THEN "" ELSE rows[j - 1].digest)
                   /\ rows[j].digest = compute_digest(rows[j])
            /\ Len(heads) = (IF rows = <<>> THEN 0 ELSE 1)
            /\ rows # <<>>
               => /\ heads[1].turn_index = Len(rows) - 1
                  /\ heads[1].digest = rows[Len(rows)].digest

\* an append committed after its transaction was run again, behind the
\* append it conflicted with
C30_Witness ==
    /\ ret.op = "append"
    /\ ret.reruns >= 1
    /\ ret.value.turn_index = 1
    /\ Len(QldbTurnsOf(ret.value.conversation_id)) = 2
    /\ ret.value.digest = QldbSelectHead(kv, ret.value.conversation_id)[1].digest

====
